---- MODULE Spec2Model ----
(***************************************************************************)
(* Model of d-plex-hw-optimizer.py: a sequential script that walks a Plex  *)
(* movie library, probes every video file with mediainfo and re-encodes    *)
(* the ones above 1 Mbps with ffmpeg into "<title>/Custom Versions/1Mbps". *)
(*                                                                         *)
(* Strings (file names, paths) are sequences of tokens, so that            *)
(* str.endswith and the substring test `in` are computed, not assumed.     *)
(* Python floats are IEEE-754 doubles: a double is a mantissa of at most   *)
(* 53 bits and the exponent of its last bit, and division and              *)
(* multiplication round to nearest, ties to even.                          *)
(***************************************************************************)
EXTENDS Integers, Sequences, FiniteSets, TLC

\* ------------------------------------------------------------------------
\* Constants of the script
\* ------------------------------------------------------------------------
QUALITY_PROFILE == <<"1Mbps">>

VIDEO_BITRATE == 1000

\* GOP_SIZE_FACTOR = 0.5 = 2^-1: the factor as a (negative) power of two
GOP_SIZE_FACTOR_EXP == -1

TARGET_HORIZONTAL_RES == 854

TARGET_VERTICAL_RES == 480

\* ------------------------------------------------------------------------
\* Bounds of the model
\* ------------------------------------------------------------------------
\* number of invocations of the script over the same library
MaxRuns == 2

\* width and height 0..MaxDim are all tried by the arithmetic specification
MaxDim == 16

\* frame rates 0..MaxRate hundredths of a frame per second are all tried
MaxRate == 3000

\* ------------------------------------------------------------------------
\* IEEE-754 double arithmetic, as far as the script uses it.
\* A float >= 0 is [d |-> digits, e |-> exponent]: the natural number written
\* by the base-64 digits d (most significant first, no leading zero), times
\* 2^e; the digits never hold more than MantissaBits significant bits.
\* ------------------------------------------------------------------------
MantissaBits == 53

DigitBits == 6

Base == 64

FloatZero == [d |-> <<>>, e |-> 0]

RECURSIVE Pow2(_)
Pow2(n) == IF n = 0 THEN 1 ELSE 2 * Pow2(n - 1)

\* the natural number written by a (short) digit sequence
RECURSIVE DigitsVal(_)
DigitsVal(ds) ==
    IF ds = <<>> THEN 0
    ELSE Base * DigitsVal(SubSeq(ds, 1, Len(ds) - 1)) + ds[Len(ds)]

\* the digits of a natural number, without leading zeros
RECURSIVE ToDigits(_)
ToDigits(n) == IF n = 0 THEN <<>> ELSE ToDigits(n \div Base) \o <<n % Base>>

\* number of significant bits of one digit
DigitLen(x) ==
    IF x >= 32 THEN 6 ELSE IF x >= 16 THEN 5 ELSE IF x >= 8 THEN 4
    ELSE IF x >= 4 THEN 3 ELSE IF x >= 2 THEN 2 ELSE IF x >= 1 THEN 1 ELSE 0

\* number of significant bits of a digit sequence without leading zeros
BitLen(ds) == IF ds = <<>> THEN 0 ELSE DigitBits * (Len(ds) - 1) + DigitLen(ds[1])

StripZeros(ds) ==
    LET nz == {i \in 1..Len(ds) : ds[i] # 0}
    IN  IF nz = {} THEN <<>>
        ELSE SubSeq(ds, CHOOSE i \in nz : \A k \in nz : i <= k, Len(ds))

\* ds + 1
BigInc(ds) ==
    LET open == {i \in 1..Len(ds) : ds[i] # Base - 1}
    IN  IF open = {} THEN <<1>> \o [i \in 1..Len(ds) |-> 0]
        ELSE LET p == CHOOSE i \in open : \A k \in open : i >= k
             IN  [i \in 1..Len(ds) |-> IF i < p THEN ds[i]
                                        ELSE IF i = p THEN ds[i] + 1 ELSE 0]

\* ds * h + carry, for a small natural h
RECURSIVE BigMulSmall(_, _, _)
BigMulSmall(ds, h, carry) ==
    IF ds = <<>> THEN ToDigits(carry)
    ELSE LET t == ds[Len(ds)] * h + carry
         IN  BigMulSmall(SubSeq(ds, 1, Len(ds) - 1), h, t \div Base) \o <<t % Base>>

\* quotient (with leading zeros) and remainder of (r * Base^Len(ds) + ds) / p
RECURSIVE BigDivSmall(_, _, _)
BigDivSmall(ds, p, r) ==
    IF ds = <<>> THEN [q |-> <<>>, rem |-> r]
    ELSE LET cur  == r * Base + ds[1]
             rest == BigDivSmall(Tail(ds), p, cur % p)
         IN  [q |-> <<cur \div p>> \o rest.q, rem |-> rest.rem]

\* Round the exact value (ds + fraction) * 2^e, where the fraction is in
\* (0,1) when sticky and 0 otherwise, to the nearest double, ties to even.
RoundToDouble(ds, e, sticky) ==
    IF BitLen(ds) <= MantissaBits THEN [d |-> ds, e |-> e]
    ELSE LET s     == BitLen(ds) - MantissaBits
             j     == s \div DigitBits
             t     == s % DigitBits
             low   == SubSeq(ds, Len(ds) - j + 1, Len(ds))
             dv    == BigDivSmall(SubSeq(ds, 1, Len(ds) - j), Pow2(t), 0)
             q     == StripZeros(dv.q)
             lowNZ == sticky \/ (\E i \in 1..Len(low) : low[i] # 0)
             tailNZ == sticky \/ (\E i \in 2..Len(low) : low[i] # 0)
             above == IF t >= 1
                      THEN dv.rem > Pow2(t - 1) \/ (dv.rem = Pow2(t - 1) /\ lowNZ)
                      ELSE low[1] > Base \div 2 \/ (low[1] = Base \div 2 /\ tailNZ)
             tie   == IF t >= 1
                      THEN dv.rem = Pow2(t - 1) /\ ~lowNZ
                      ELSE low[1] = Base \div 2 /\ ~tailNZ
             up    == above \/ (tie /\ q[Len(q)] % 2 = 1)
         IN  [d |-> IF up THEN BigInc(q) ELSE q, e |-> e + s]

\* number of doublings of b that still fit under a
RECURSIVE ShiftUp(_, _)
ShiftUp(b, a) == IF 2 * b > a THEN 0 ELSE 1 + ShiftUp(2 * b, a)

\* number of doublings of a needed to reach b
RECURSIVE ShiftDown(_, _)
ShiftDown(a, b) == IF a >= b THEN 0 ELSE 1 + ShiftDown(2 * a, b)

\* the first count base-64 digits of r/n after the point, for r < n, and the
\* remainder
RECURSIVE LongDiv(_, _, _)
LongDiv(r, n, count) ==
    IF count = 0 THEN [digits |-> <<>>, rem |-> r]
    ELSE LET cur  == r * Base
             rest == LongDiv(cur % n, n, count - 1)
         IN  [digits |-> <<cur \div n>> \o rest.digits, rem |-> rest.rem]

\* digits after the point kept by a division: one leading bit and
\* FracDigits * DigitBits >= MantissaBits further bits
FracDigits == 9

\* Python's a / b on ints a >= 0, b > 0: the correctly rounded quotient
FloatDiv(a, b) ==
    IF a = 0 THEN FloatZero
    ELSE LET up  == IF a >= b THEN ShiftUp(b, a) ELSE 0
             dn  == IF a >= b THEN 0 ELSE ShiftDown(a, b)
             num == a * Pow2(dn)
             den == b * Pow2(up)
             q   == LongDiv(num - den, den, FracDigits)
         IN  RoundToDouble(<<1>> \o q.digits,
                           (up - dn) - FracDigits * DigitBits, q.rem # 0)

\* Python's h * x for an int h >= 0 and a float x >= 0
FloatMulInt(x, h) ==
    IF h = 0 \/ x.d = <<>> THEN FloatZero
    ELSE RoundToDouble(BigMulSmall(x.d, h, 0), x.e, FALSE)

\* x * 2^k, exact
FloatScale(x, k) == IF x.d = <<>> THEN FloatZero ELSE [d |-> x.d, e |-> x.e + k]

\* Python's int(x) for a float x >= 0: truncation
FloatToInt(x) ==
    IF x.d = <<>> THEN 0
    ELSE IF x.e >= 0 THEN DigitsVal(x.d) * Pow2(x.e)
    ELSE LET s == 0 - x.e
             j == s \div DigitBits
         IN  IF j >= Len(x.d) THEN 0
             ELSE DigitsVal(StripZeros(
                      BigDivSmall(SubSeq(x.d, 1, Len(x.d) - j), Pow2(s % DigitBits), 0).q))

\* x < n for a float x >= 0 and an int n
FloatLtInt(x, n) == FloatToInt(x) < n

\* ------------------------------------------------------------------------
\* Results of calls: a returned value or a raised exception
\* ------------------------------------------------------------------------
Return(v) == [exc |-> "", val |-> v]

Raise(name) == [exc |-> name, val |-> <<>>]

\* ------------------------------------------------------------------------
\* The two pieces of arithmetic
\* ------------------------------------------------------------------------
\* calculate_new_resolution(width, height); an int / 0 raises
calculate_new_resolution(width, height) ==
    IF width = 0 THEN Raise("ZeroDivisionError")
    ELSE LET new_height ==
                 FloatToInt(FloatMulInt(FloatDiv(TARGET_HORIZONTAL_RES, width), height))
         IN  IF new_height > TARGET_VERTICAL_RES
             THEN Return(<<FloatToInt(FloatMulInt(FloatDiv(TARGET_VERTICAL_RES, height),
                                                  width)),
                           TARGET_VERTICAL_RES>>)
             ELSE Return(<<TARGET_HORIZONTAL_RES, new_height>>)

\* float(s) for the decimal string s of c hundredths: the nearest double
ParseRate(c) == FloatDiv(c, 100)

\* gop_size with the factor left out: int(framerate)
gop_size_framerate(framerate) == FloatToInt(framerate)

\* gop_size = int(framerate * GOP_SIZE_FACTOR)
gop_size(framerate) == FloatToInt(FloatScale(framerate, GOP_SIZE_FACTOR_EXP))

\* ------------------------------------------------------------------------
\* Strings and paths: sequences of tokens
\* ------------------------------------------------------------------------
Sep == "/"

\* s.endswith(suffix)
EndsWith(s, suffix) ==
    /\ Len(suffix) <= Len(s)
    /\ SubSeq(s, Len(s) - Len(suffix) + 1, Len(s)) = suffix

\* needle in hay
Contains(hay, needle) ==
    \E i \in 1..(Len(hay) - Len(needle) + 1) :
        SubSeq(hay, i, i + Len(needle) - 1) = needle

\* os.path.join(a, b) for a relative b
join(a, b) == a \o <<Sep>> \o b

CustomVersions == <<"Custom", " ", "Versions">>

VideoExtensions == {<<".mp4">>, <<".mkv">>, <<".webm">>, <<".avi">>}

is_video_file(filename) == \E ext \in VideoExtensions : EndsWith(filename, ext)

\* ------------------------------------------------------------------------
\* What mediainfo reports for a file
\* ------------------------------------------------------------------------
\* a field the Video track does not have
Missing == -1

ProbeError == [status |-> "error", FrameRate |-> Missing, BitRate |-> Missing,
               Width |-> Missing, Height |-> Missing]

NoVideoTrack == [status |-> "novideo", FrameRate |-> Missing, BitRate |-> Missing,
                 Width |-> Missing, Height |-> Missing]

Track(fr, br, w, h) ==
    [status |-> "ok", FrameRate |-> fr, BitRate |-> br, Width |-> w, Height |-> h]

\* the probe outcomes the source files of the library are drawn from
ProbeOutcomes ==
    { ProbeError,
      NoVideoTrack,
      Track(Missing, Missing, Missing, Missing),
      Track(2400, 999999, 1920, 1080),
      Track(2400, 1000000, 1920, 1080),
      Track(2997, 4000000, 11, 11),
      Track(2997, 4000000, Missing, Missing) }

\* what mediainfo reports for a file written by ffmpeg
EncodedTrack == Track(2400, 1000000, 854, 480)

\* video_track.get(key, 0)
Get(v) == IF v = Missing THEN 0 ELSE v

None == [none |-> TRUE]

IsNone(x) == "none" \in DOMAIN x

\* get_video_info without the conversion of the bit rate to kbps
get_video_info_bps(raw) ==
    IF raw.status # "ok"
    THEN Return([framerate |-> None, bitrate |-> None, width |-> None, height |-> None])
    ELSE Return([framerate |-> ParseRate(Get(raw.FrameRate)),
                 bitrate   |-> FloatDiv(Get(raw.BitRate), 1),
                 width     |-> Get(raw.Width),
                 height    |-> Get(raw.Height)])

\* get_video_info without its try/except
get_video_info_nocatch(raw) ==
    IF raw.status # "ok"
    THEN Raise("Exception")
    ELSE Return([framerate |-> ParseRate(Get(raw.FrameRate)),
                 bitrate   |-> FloatDiv(Get(raw.BitRate), 1000),
                 width     |-> Get(raw.Width),
                 height    |-> Get(raw.Height)])

\* get_video_info(input_file), given what mediainfo does for the file
get_video_info(raw) ==
    IF raw.status # "ok"
    THEN Return([framerate |-> None, bitrate |-> None, width |-> None, height |-> None])
    ELSE Return([framerate |-> ParseRate(Get(raw.FrameRate)),
                 bitrate   |-> FloatDiv(Get(raw.BitRate), 1000),
                 width     |-> Get(raw.Width),
                 height    |-> Get(raw.Height)])

\* the skip test after the probe
ShouldSkip(framerate, original_bitrate) ==
    \/ IsNone(framerate)
    \/ IsNone(original_bitrate)
    \/ FloatLtInt(original_bitrate, VIDEO_BITRATE)

\* subprocess.run without check=True
CalledProcessError_unchecked(returncode) == FALSE

\* subprocess.run(..., check=True) raises on a non-zero exit status
CalledProcessError(returncode) == returncode # 0

\* the computed arguments of the ffmpeg command: -g and -vf scale=
ffmpeg_args(info) ==
    LET g   == gop_size(info.framerate)
        res == calculate_new_resolution(info.width, info.height)
    IN  IF res.exc # "" THEN res ELSE Return([g |-> g, scale |-> res.val])

\* ------------------------------------------------------------------------
\* The library on disk
\* ------------------------------------------------------------------------
plex_library_path == <<"lib">>

Movie1 == join(plex_library_path, <<"T1">>)

Movie2 == join(plex_library_path, <<"T2">>)

Extras == join(Movie1, <<"Extras">>)

\* a folder of the title that is not its output folder but is named like it
ExtrasCustom == join(Extras, CustomVersions)

SourceA == join(Movie1, <<"a", ".mp4">>)

SourceA2 == join(Extras, <<"a", ".mp4">>)

SourceC == join(ExtrasCustom, <<"c", ".avi">>)

SourceD == join(Movie2, <<"d", ".webm">>)

Notes == join(Movie1, <<"notes", ".txt">>)

Trailer == join(plex_library_path, <<"trailer", ".mp4">>)

\* a file left in the output folder of T1 by an earlier conversion
OldOutput == join(join(Movie1, CustomVersions), <<"old", ".mkv">>)

\* an output of T1/a.mp4 already present before the first run
PreOutput == join(join(join(Movie1, CustomVersions), QUALITY_PROFILE), <<"a", ".mp4">>)

SourceFile == [kind |-> "source", src |-> <<>>, run |-> 0]

FixedSources == {SourceC, Notes, Trailer}

ChosenSources == {SourceA, SourceA2, SourceD}

VARIABLES
    dirs,               \* the directories that exist
    files,              \* the files that exist, and what each holds
    media,              \* what mediainfo does for each source file
    run,                \* number of the current invocation of the script
    pc,                 \* where the current invocation is
    entries,            \* main: entries of the library not yet looked at
    movie_folder_path,  \* the title being processed
    roots,              \* os.walk: directories not yet yielded
    root,               \* os.walk: the directory being listed
    files_left,         \* files of root not yet looked at
    visited,            \* history: [run, input] that reached the exists check
    probes,             \* history: mediainfo calls [run, input]
    transcodes,         \* history: ffmpeg calls
    prev,               \* history: how the previous invocation ended
    files0,             \* history: files at the start of the invocation
    calc_in,            \* arithmetic specification: the arguments
    calc_out            \* arithmetic specification: the result

vars == <<dirs, files, media, run, pc, entries, movie_folder_path, roots, root,
          files_left, visited, probes, transcodes, prev, files0, calc_in, calc_out>>

fsvars == <<dirs, files>>

histvars == <<visited, probes, transcodes>>

calcvars == <<calc_in, calc_out>>

\* ------------------------------------------------------------------------
\* os and os.path
\* ------------------------------------------------------------------------
os_path_exists(p) == p \in dirs \/ p \in DOMAIN files

os_path_isdir(p) == p \in dirs

\* names of the entries of directory p among the paths in S
Listing(p, S) ==
    { SubSeq(q, Len(p) + 2, Len(q)) :
        q \in { x \in S : /\ Len(x) > Len(p) + 1
                          /\ SubSeq(x, 1, Len(p) + 1) = p \o <<Sep>>
                          /\ \A i \in (Len(p) + 2)..Len(x) : x[i] # Sep } }

\* the order in which the file system enumerates a directory
RECURSIVE SetToSeq(_)
SetToSeq(S) ==
    IF S = {} THEN <<>>
    ELSE LET x == CHOOSE y \in S : TRUE IN <<x>> \o SetToSeq(S \ {x})

os_listdir(p) == SetToSeq(Listing(p, dirs \cup DOMAIN files))

\* the directories os.walk(top) yields, in its top-down order
RECURSIVE os_walk(_, _)
RECURSIVE WalkEach(_, _, _)
os_walk(top, ds) == <<top>> \o WalkEach(top, SetToSeq(Listing(top, ds)), ds)
WalkEach(top, names, ds) ==
    IF names = <<>> THEN <<>>
    ELSE os_walk(join(top, Head(names)), ds) \o WalkEach(top, Tail(names), ds)

\* os.makedirs(p) for a p whose parent exists or is made as well
custom_versions_dirs(movie) ==
    {join(movie, CustomVersions), join(join(movie, CustomVersions), QUALITY_PROFILE)}

custom_versions_path(movie) == join(join(movie, CustomVersions), QUALITY_PROFILE)

\* the walk's test with the folder name misspelt
InCustomVersions_typo(r) == Contains(r, <<"Custom", "Versions">>)

\* the test that keeps the walk out of the output folder
InCustomVersions(r) == Contains(r, CustomVersions)

\* the skip test left out
AlreadyConverted_never(output_file) == FALSE

\* the skip test looking for a directory
AlreadyConverted_isdir(output_file) == os_path_isdir(output_file)

\* the test that skips a file already converted
AlreadyConverted(output_file) == os_path_exists(output_file)

\* what mediainfo does for a file
Probe(input_file) ==
    IF input_file \in DOMAIN media THEN media[input_file] ELSE EncodedTrack

\* ------------------------------------------------------------------------
\* Initial states
\* ------------------------------------------------------------------------
BaseDirs == {plex_library_path, Movie1, Movie2, Extras, ExtrasCustom}

Idle ==
    /\ run = 1
    /\ entries = <<>>
    /\ movie_folder_path = <<>>
    /\ roots = <<>>
    /\ root = <<>>
    /\ files_left = <<>>
    /\ visited = {}
    /\ probes = {}
    /\ transcodes = {}
    /\ prev = "none"

Init ==
    /\ Idle
    /\ pc = "start"
    /\ calc_in = <<>>
    /\ calc_out = <<>>
    /\ \/ /\ dirs = {}
          /\ files = <<>>
          /\ media = <<>>
       \/ /\ \E old \in BOOLEAN, pre \in BOOLEAN :
                /\ dirs = BaseDirs \cup
                          (IF old \/ pre THEN custom_versions_dirs(Movie1) ELSE {})
                /\ files = [p \in (FixedSources \cup ChosenSources
                                   \cup (IF old THEN {OldOutput} ELSE {})
                                   \cup (IF pre THEN {PreOutput} ELSE {}))
                            |-> IF p \in {OldOutput, PreOutput}
                                THEN [kind |-> "encoded", src |-> SourceA, run |-> 0]
                                ELSE SourceFile]
          /\ \E m \in [ChosenSources -> ProbeOutcomes] :
                media = [p \in FixedSources \cup ChosenSources |->
                           IF p \in ChosenSources THEN m[p]
                           ELSE IF p = Notes THEN NoVideoTrack
                           ELSE Track(2400, 1000000, 1920, 1080)]
    /\ files0 = files

\* ------------------------------------------------------------------------
\* The script
\* ------------------------------------------------------------------------
\* main, up to its loop
Main ==
    /\ pc = "start"
    /\ IF ~os_path_exists(plex_library_path)
       THEN /\ pc' = "exit"
            /\ entries' = <<>>
       ELSE /\ pc' = "main"
            /\ entries' = os_listdir(plex_library_path)
    /\ UNCHANGED <<fsvars, media, run, movie_folder_path, roots, root, files_left,
                   histvars, prev, files0, calcvars>>

\* one iteration of main's loop, up to the walk of process_videos
NextMovieFolder ==
    /\ pc = "main"
    /\ entries # <<>>
    /\ entries' = Tail(entries)
    /\ LET path == join(plex_library_path, Head(entries))
       IN  /\ movie_folder_path' = path
           /\ IF ~os_path_isdir(path)
              THEN UNCHANGED <<pc, dirs, roots>>
              ELSE /\ dirs' = dirs \cup custom_versions_dirs(path)
                   /\ roots' = os_walk(path, dirs')
                   /\ pc' = "walk"
    /\ UNCHANGED <<files, media, run, root, files_left, histvars, prev, files0,
                   calcvars>>

\* os.walk yields the next directory
WalkNextRoot ==
    /\ pc = "walk"
    /\ files_left = <<>>
    /\ roots # <<>>
    /\ root' = Head(roots)
    /\ roots' = Tail(roots)
    /\ files_left' = IF InCustomVersions(Head(roots)) THEN <<>>
                     ELSE SetToSeq(Listing(Head(roots), DOMAIN files))
    /\ UNCHANGED <<fsvars, media, run, pc, entries, movie_folder_path, histvars,
                   prev, files0, calcvars>>

\* the next file is skipped: the inner loop continues
Continue ==
    /\ files_left' = Tail(files_left)
    /\ UNCHANGED <<pc, files>>

\* an exception leaves process_videos and main
Abort ==
    /\ pc' = "aborted"
    /\ UNCHANGED files_left

\* the body of the inner loop for the next file of root
ProcessFile ==
    /\ pc = "walk"
    /\ files_left # <<>>
    /\ LET file        == Head(files_left)
           input_file  == join(root, file)
           output_file == join(custom_versions_path(movie_folder_path), file)
           got         == get_video_info(Probe(input_file))
           info        == got.val
           args        == ffmpeg_args(info)
       IN  IF ~is_video_file(file)
           THEN Continue /\ UNCHANGED histvars
           ELSE /\ visited' = visited \cup {[run |-> run, input |-> input_file]}
                /\ IF AlreadyConverted(output_file)
                   THEN Continue /\ UNCHANGED <<probes, transcodes>>
                   ELSE /\ probes' = probes \cup {[run |-> run, input |-> input_file]}
                        /\ IF got.exc # ""
                           THEN Abort /\ UNCHANGED <<files, transcodes>>
                           ELSE IF ShouldSkip(info.framerate, info.bitrate)
                           THEN Continue /\ UNCHANGED transcodes
                           ELSE IF args.exc # ""
                           THEN Abort /\ UNCHANGED <<files, transcodes>>
                           ELSE \E returncode \in {0, 1}, written \in BOOLEAN :
                                  /\ returncode = 0 => written
                                  /\ transcodes' = transcodes \cup
                                        {[run    |-> run,
                                          input  |-> input_file,
                                          output |-> output_file,
                                          g      |-> args.val.g,
                                          scale  |-> args.val.scale,
                                          returncode |-> returncode]}
                                  /\ files' =
                                       IF written
                                       THEN [p \in DOMAIN files \cup {output_file} |->
                                               IF p = output_file
                                               THEN [kind |-> IF returncode = 0
                                                              THEN "encoded" ELSE "partial",
                                                     src  |-> input_file,
                                                     run  |-> run]
                                               ELSE files[p]]
                                       ELSE files
                                  /\ IF CalledProcessError(returncode)
                                     THEN Abort
                                     ELSE /\ files_left' = Tail(files_left)
                                          /\ pc' = pc
    /\ UNCHANGED <<dirs, media, run, entries, movie_folder_path, roots, root, prev,
                   files0, calcvars>>

\* process_videos returns
EndWalk ==
    /\ pc = "walk"
    /\ files_left = <<>>
    /\ roots = <<>>
    /\ pc' = "main"
    /\ UNCHANGED <<fsvars, media, run, entries, movie_folder_path, roots, root,
                   files_left, histvars, prev, files0, calcvars>>

\* main prints "Processing complete."
Complete ==
    /\ pc = "main"
    /\ entries = <<>>
    /\ pc' = "complete"
    /\ UNCHANGED <<fsvars, media, run, entries, movie_folder_path, roots, root,
                   files_left, histvars, prev, files0, calcvars>>

\* the script is invoked again on the same library
Rerun ==
    /\ pc \in {"complete", "aborted", "exit"}
    /\ run < MaxRuns
    /\ run' = run + 1
    /\ prev' = pc
    /\ files0' = files
    /\ pc' = "start"
    /\ entries' = <<>>
    /\ movie_folder_path' = <<>>
    /\ roots' = <<>>
    /\ root' = <<>>
    /\ files_left' = <<>>
    /\ UNCHANGED <<fsvars, media, histvars, calcvars>>

Next ==
    \/ Main
    \/ NextMovieFolder
    \/ WalkNextRoot
    \/ ProcessFile
    \/ EndWalk
    \/ Complete
    \/ Rerun

Spec == Init /\ [][Next]_vars

\* ------------------------------------------------------------------------
\* The arithmetic on its own: every frame rate and every size within the
\* bounds goes through the probe's conversions and the command's arithmetic
\* ------------------------------------------------------------------------
CalcDims == (0..MaxDim) \cup {480, 640, 854, 1080, 1920}

CalcInputs ==
    {Track(f, 4000000, 1920, 1080) : f \in 0..MaxRate}
    \cup {Track(2400, 4000000, w, h) : w \in CalcDims, h \in CalcDims}

InitCalc ==
    /\ Idle
    /\ pc = "calc"
    /\ dirs = {}
    /\ files = <<>>
    /\ media = <<>>
    /\ files0 = <<>>
    /\ calc_in \in CalcInputs
    /\ calc_out = <<>>

\* the probe's conversions and the arithmetic of the loop body, for calc_in
BuildCommand ==
    /\ pc = "calc"
    /\ calc_out = <<>>
    /\ calc_out' = <<ffmpeg_args(get_video_info(calc_in).val)>>
    /\ UNCHANGED <<fsvars, media, run, pc, entries, movie_folder_path, roots, root,
                   files_left, histvars, prev, files0, calc_in>>

NextCalc == BuildCommand

SpecCalc == InitCalc /\ [][NextCalc]_vars

\* ------------------------------------------------------------------------
\* Properties
\* ------------------------------------------------------------------------
StartsWith(s, prefix) == Len(prefix) <= Len(s) /\ SubSeq(s, 1, Len(prefix)) = prefix

\* the title folders of the library
Titles == {join(plex_library_path, e) : e \in Listing(plex_library_path, dirs)}

\* p lies under the output subfolder "<title>/Custom Versions" of some title
UnderOutput(p) ==
    \E t \in Titles : StartsWith(p, join(t, CustomVersions) \o <<Sep>>)

\* p lies under a title folder
UnderTitle(p) == \E t \in Titles : StartsWith(p, t \o <<Sep>>)

\* the last token of a path is one of the four extensions
HasVideoExtension(p) == p[Len(p)] \in {".mp4", ".mkv", ".webm", ".avi"}

Call(r, p) == [run |-> r, input |-> p]

\* the file the loop body is about to look at, and its output path
NextInput == join(root, Head(files_left))

NextOutput ==
    join(join(join(movie_folder_path, CustomVersions), <<"1Mbps">>), Head(files_left))

AtVideoFile ==
    pc = "walk" /\ files_left # <<>> /\ HasVideoExtension(Head(files_left))

\* C1: a file whose output path exists when it is visited is neither probed
\* nor transcoded, and no file (the existing output included) changes.
C1_SkipExisting ==
    [][(AtVideoFile /\ NextOutput \in DOMAIN files)
         => (probes' = probes /\ transcodes' = transcodes /\ files' = files)]_vars

\* T1/a.mp4 was visited in the first run and not probed, because its output
\* was there before the run, and that output is as it was
C1_Witness ==
    /\ Call(1, SourceA) \in visited
    /\ Call(1, SourceA) \notin probes
    /\ PreOutput \in DOMAIN files
    /\ files[PreOutput].run = 0

\* the bit rate mediainfo reports for p is below 1,000,000 bits per second
\* (a missing BitRate counts as 0)
BelowThreshold(p) ==
    Probe(p).status = "ok" /\ Get(Probe(p).BitRate) < 1000000

AtThreshold(p) ==
    Probe(p).status = "ok" /\ Get(Probe(p).BitRate) = 1000000

\* C2: no ffmpeg call and no output for a source below 1000 kbps; a source
\* at exactly 1000 kbps (whose size can be scaled) is transcoded.
C2_BitrateThreshold ==
    /\ \A t \in transcodes : ~BelowThreshold(t.input)
    /\ \A p \in DOMAIN files : files[p].run > 0 => ~BelowThreshold(files[p].src)
    /\ \A q \in probes :
         (AtThreshold(q.input) /\ Get(Probe(q.input).Width) # 0)
           => \E t \in transcodes : t.run = q.run /\ t.input = q.input

\* a probed source just below the threshold, one with no BitRate, and a
\* transcoded one exactly at the threshold
C2_Witness ==
    /\ \E q \in probes : Probe(q.input).status = "ok" /\ Probe(q.input).BitRate = 999999
    /\ \E q \in probes : Probe(q.input).status = "ok" /\ Probe(q.input).BitRate = Missing
    /\ \E t \in transcodes : AtThreshold(t.input)

\* C3: no file under a title's "Custom Versions" folder is ever probed or
\* given to ffmpeg as input, in any run.
C3_OutputsNeverInputs ==
    /\ \A q \in probes : ~UnderOutput(q.input)
    /\ \A t \in transcodes : ~UnderOutput(t.input)

\* a second run has completed over outputs of the first run and an older one
C3_Witness ==
    /\ run = 2
    /\ pc = "complete"
    /\ OldOutput \in DOMAIN files
    /\ \E p \in DOMAIN files : UnderOutput(p) /\ files[p].run = 1

ProbeFails(p) == Probe(p).status # "ok"

\* C4: when the probe of a file fails, get_video_info returns all-None, no
\* ffmpeg call is made, no file changes, the run goes on with the next file,
\* and the files, directories and titles still to come are all kept.
C4_ProbeFailureSkips ==
    [][(AtVideoFile /\ probes' # probes /\ ProbeFails(NextInput))
         => /\ get_video_info(Probe(NextInput)).exc = ""
            /\ \A k \in {"framerate", "bitrate", "width", "height"} :
                  IsNone(get_video_info(Probe(NextInput)).val[k])
            /\ transcodes' = transcodes
            /\ files' = files
            /\ pc' = "walk"
            /\ files_left' = Tail(files_left)
            /\ roots' = roots
            /\ entries' = entries]_vars

\* a run completed, with every source of both titles visited, although a
\* probe failed in it
C4_Witness ==
    /\ pc = "complete"
    /\ \E q \in probes : q.run = run /\ ProbeFails(q.input) /\ q.input = SourceA
    /\ \A p \in ChosenSources : Call(run, p) \in visited

\* an ffmpeg call of the current run exited non-zero
EncodeFailed == \E t \in transcodes : t.run = run /\ t.returncode # 0

\* C5: a non-zero exit of ffmpeg aborts the run: from then on the run makes
\* no probe and no ffmpeg call, never completes, and removes no file.
C5_EncodeFailureAborts ==
    [][(EncodeFailed' /\ run' = run)
         => /\ pc' = "aborted"
            /\ EncodeFailed => (probes' = probes /\ transcodes' = transcodes
                                /\ files' = files)]_vars

\* a run aborted by ffmpeg, its partial output on disk and a source unvisited
C5_Witness ==
    /\ pc = "aborted"
    /\ \E t \in transcodes :
          /\ t.run = run
          /\ t.returncode # 0
          /\ t.output \in DOMAIN files
          /\ files[t.output].kind = "partial"
    /\ \E p \in ChosenSources : Call(run, p) \notin visited

Computed == calc_out # <<>>

\* C6: the computed width and height are positive and at most 854 and 480,
\* for every width and height a probe can report (0 for a missing field).
C6_ResolutionPositiveBounded ==
    Computed =>
        /\ calc_out[1].exc = ""
        /\ calc_out[1].val.scale[1] > 0
        /\ calc_out[1].val.scale[1] <= 854
        /\ calc_out[1].val.scale[2] > 0
        /\ calc_out[1].val.scale[2] <= 480

\* C7: when a run completes, every file with one of the four extensions
\* under a title folder and outside that title's "Custom Versions" folder
\* has reached the output-exists check.
C7_EveryVideoIsCandidate ==
    pc = "complete" =>
        \A p \in DOMAIN files :
            (HasVideoExtension(p) /\ UnderTitle(p) /\ ~UnderOutput(p))
              => Call(run, p) \in visited

\* the two-branch reference in exact integer arithmetic
ReferenceResolution(w, h) ==
    IF (h * 854) \div w <= 480 THEN <<854, (h * 854) \div w>>
    ELSE <<(w * 480) \div h, 480>>

\* C8: for positive width and height the computed size is the two-branch
\* reference, and 1920x1080 gives 854x480.
C8_ResolutionReference ==
    (Computed /\ calc_in.Width > 0 /\ calc_in.Height > 0) =>
        /\ calc_out[1].exc = ""
        /\ calc_out[1].val.scale = ReferenceResolution(calc_in.Width, calc_in.Height)
        /\ (calc_in.Width = 1920 /\ calc_in.Height = 1080)
              => calc_out[1].val.scale = <<854, 480>>

\* C9: the -g argument is the frame rate times 0.5, truncated: for a frame
\* rate of f hundredths it is f \div 200; 12 for 24 and 14 for 29.97.
C9_GopSize ==
    (Computed /\ calc_out[1].exc = "") =>
        /\ calc_out[1].val.g = calc_in.FrameRate \div 200
        /\ calc_in.FrameRate = 2400 => calc_out[1].val.g = 12
        /\ calc_in.FrameRate = 2997 => calc_out[1].val.g = 14

\* the command for a frame rate of 29.97 has been computed
C9_Witness ==
    Computed /\ calc_out[1].exc = "" /\ calc_in.FrameRate = 2997 /\ calc_out[1].val.g = 14

\* C10: a run that follows a completed run makes no ffmpeg call and leaves
\* every file as it found it.
C10_RerunIdempotent ==
    (run > 1 /\ prev = "complete") =>
        /\ \A t \in transcodes : t.run # run
        /\ files = files0

\* a second run completed after a first one that transcoded a file and
\* skipped another after its probe
C10_Witness ==
    /\ run = 2
    /\ prev = "complete"
    /\ pc = "complete"
    /\ \E t \in transcodes : t.run = 1 /\ t.returncode = 0
    /\ \E q \in probes : q.run = 2

====
